---- MODULE Spec2Model ----
(***************************************************************************)
(* Permission reconciliation of agent-wallet (`agent-wallet configure`,    *)
(* `agent-wallet status`), modelled from src/src/cli.ts (runConfigureFlow  *)
(* and its helpers), src/src/porto/service.ts (PortoService) and the       *)
(* policy matcher of src/unnamed/part_006 (findMatchingPermission).        *)
(*                                                                         *)
(* The remote platform (Porto relay) and the human dialog are the          *)
(* environment: grants are queued there as precalls and settle             *)
(* asynchronously; every remote request may fail.                          *)
(***************************************************************************)
EXTENDS Integers, Sequences, FiniteSets, Bags, TLC

\* ------------------------------------------------------------------ bounds
\* Grant requests the remote platform accepts in one behaviour.
MaxGrants == 2
\* Sleeps of one waitForActivePermission call before its deadline has passed
\* (stands for PERMISSION_DISCOVERY_TIMEOUT_MS / PERMISSION_DISCOVERY_INTERVAL_MS).
MaxPolls == 1

\* ------------------------------------------------------- program constants
\* An absent (undefined / null) string.
NULL == "null"
\* An absent identifier or chain id (undefined).
NO_ID == 0
\* An optional object: None is undefined / null, Some(x) is x.
None == << >>
Some(x) == << x >>

PORTO_ANY_SELECTOR == "0x32323232"
PORTO_ANY_TARGET == "0x3232323232323232323232323232323232323232"
DEFAULT_PERMISSION_DAILY_USD == 100
USD_BASE_UNITS == 1000000
DEFAULT_EXPIRY_DAYS == 7
BASE_CHAIN_ID == 8453
BASE_SEPOLIA_CHAIN_ID == 84532
NATIVE_TOKEN_ADDRESS == "0x0000000000000000000000000000000000000000"

\* --------------------------------------------------------------- universe
\* Account addresses the dialog can return, and call targets.
X1 == "0xacc1"
X2 == "0xacc2"
TARGET_A == "0xaaaa"
TARGET_B == "0xbbbb"
TRANSFER_SELECTOR == "0xa9059cbb"
\* keccak256("transferFrom(address,address,uint256)")[0..3], and the same of
\* the text in lower case.
TRANSFER_FROM_SELECTOR == "0x23b872dd"
LOWERED_TRANSFER_FROM_SELECTOR == "0x63b0545f"
USDC_TOKEN == "0x833589fc"

Accounts == {X1, X2}

Entry(to, signature) == [to |-> to, signature |-> signature]

\* --calls payloads a caller may pass (already JSON-parsed).
ListA == << Entry(TARGET_A, NULL) >>
ListB == << Entry(TARGET_B, TRANSFER_SELECTOR) >>
\* Any call to the address X1: a broad self-call when X1 is the account.
ListX1 == << Entry(X1, NULL) >>

Allowlists == {ListA, ListX1}

\* String.prototype.toLowerCase on the strings of the universe.
toLowerCase(s) ==
    CASE s = "0xACC1" -> "0xacc1"
      [] s = "0xACC2" -> "0xacc2"
      [] s = "0xAAAA" -> "0xaaaa"
      [] s = "0xBBBB" -> "0xbbbb"
      [] s = "0xA9059CBB" -> "0xa9059cbb"
      [] s = "0x833589FC" -> "0x833589fc"
      [] s = "0xKEY1" -> "0xkey1"
      [] s = "transferFrom(address,address,uint256)"
            -> "transferfrom(address,address,uint256)"
      [] OTHER -> s

\* entry.to?.toLowerCase(): undefined stays undefined.
LowerOpt(s) == IF s = NULL THEN NULL ELSE toLowerCase(s)

\* JavaScript falsiness of an optional string.
Falsy(s) == s = NULL \/ s = ""

\* ------------------------------------------------------ security validator
\* A validator that forgets the wildcard-any selector.
isBroadSelfCallEntry_AbsentSelectorOnly(entry, account) ==
    LET target == LowerOpt(entry.to)
        signature == LowerOpt(entry.signature)
    IN  IF Falsy(target) THEN FALSE
        ELSE IF target # toLowerCase(account) THEN FALSE
        ELSE Falsy(signature)

isBroadSelfCallEntry(entry, account) ==
    LET target == LowerOpt(entry.to)
        signature == LowerOpt(entry.signature)
    IN  IF Falsy(target) THEN FALSE
        ELSE IF target # toLowerCase(account) THEN FALSE
        ELSE IF Falsy(signature) THEN TRUE
        ELSE signature = PORTO_ANY_SELECTOR

allowlistHasBroadSelfCall(allowlist, account) ==
    \E i \in DOMAIN allowlist : isBroadSelfCallEntry(allowlist[i], account)

\* TRUE when assertSecureAllowlist returns, FALSE when it throws
\* INSECURE_SELF_ALLOWLIST.
assertSecureAllowlist(allowlist, account) ==
    ~allowlistHasBroadSelfCall(allowlist, account)

\* ------------------------------------------------------- capability matcher
\* /^0x[0-9a-fA-F]{8}$/ on the strings of the universe.
isHexSelector(value) ==
    value \in {PORTO_ANY_SELECTOR, TRANSFER_SELECTOR, "0xA9059CBB", USDC_TOKEN,
               "0x833589FC", TRANSFER_FROM_SELECTOR,
               LOWERED_TRANSFER_FROM_SELECTOR}

\* viem's toFunctionSelector on the textual signatures of the universe; NULL
\* stands for the exception it throws on text that is no function signature.
toFunctionSelector(text) ==
    CASE text = "transfer(address,uint256)" -> TRANSFER_SELECTOR
      [] text = "function transfer(address,uint256)" -> TRANSFER_SELECTOR
      [] text = "transferFrom(address,address,uint256)" -> TRANSFER_FROM_SELECTOR
      [] text = "transferfrom(address,address,uint256)"
            -> LOWERED_TRANSFER_FROM_SELECTOR
      [] OTHER -> NULL

\* The closure `normalize` of permissionMatchesRequestedAllowlist; the pair
\* <<to, signature>> stands for the string `${to}|${signature}`.
normalize(entry) ==
    LET toRaw == LowerOpt(entry.to)
        to == IF Falsy(toRaw) \/ toRaw = PORTO_ANY_TARGET THEN "*" ELSE toRaw
        signatureRaw == LowerOpt(entry.signature)
        signature ==
            IF Falsy(signatureRaw) THEN "*"
            ELSE IF signatureRaw = PORTO_ANY_SELECTOR THEN "*"
            ELSE IF isHexSelector(signatureRaw) THEN signatureRaw
            ELSE IF toFunctionSelector(signatureRaw) # NULL
                 THEN toLowerCase(toFunctionSelector(signatureRaw))
            ELSE signatureRaw
    IN  << to, signature >>

\* The multiset of the normalized entries of a call list.
RECURSIVE NormalizedBag(_)
NormalizedBag(calls) ==
    IF calls = << >> THEN EmptyBag
    ELSE SetToBag({normalize(Head(calls))}) (+) NormalizedBag(Tail(calls))

\* cli.ts compares the two sorted arrays of normalized strings index by index
\* after requiring equal lengths: two equally long sorted arrays agree at
\* every index exactly when they hold the same multiset.
permissionMatchesRequestedAllowlist(calls, requestedAllowlist) ==
    IF Len(requestedAllowlist) # Len(calls) THEN FALSE
    ELSE NormalizedBag(calls) = NormalizedBag(requestedAllowlist)

\* BigInt(Math.round(DEFAULT_PERMISSION_DAILY_USD * 1_000_000))
RequiredDailyLimit == DEFAULT_PERMISSION_DAILY_USD * USD_BASE_UNITS

includesDailySpendLimit(spend) ==
    \E i \in DOMAIN spend :
        /\ spend[i].period = "day"
        /\ spend[i].limit = RequiredDailyLimit

\* An envelope check that no record passes.
permissionMatchesDefaultEnvelope_Never(permission, requestedAllowlist) == FALSE

\* `permission` is [calls, spend]: the `permissions` object of a snapshot.
permissionMatchesDefaultEnvelope(permission, requestedAllowlist) ==
    /\ permissionMatchesRequestedAllowlist(permission.calls, requestedAllowlist)
    /\ includesDailySpendLimit(permission.spend)

\* A filter that still counts a record at the second it expires.
isActivePermission_AtExpiry(permission, nowSeconds) == permission.expiry >= nowSeconds

isActivePermission(permission, nowSeconds) == permission.expiry > nowSeconds

\* ---- the relay's key records (service.ts listAgentPermissions)
normalizeRelayKeyType(type) == IF type = "webauthnp256" THEN "webauthn-p256" ELSE type

\* Insert into a sequence sorted by expiry descending, after its equals.
RECURSIVE InsertByExpiry(_, _)
InsertByExpiry(sorted, x) ==
    IF sorted = << >> THEN << x >>
    ELSE IF Head(sorted).expiry >= x.expiry
         THEN << Head(sorted) >> \o InsertByExpiry(Tail(sorted), x)
    ELSE << x >> \o sorted

\* .sort((left, right) => right.expiry - left.expiry): stable, descending.
RECURSIVE SortByExpiryDesc(_)
SortByExpiryDesc(seq) ==
    IF seq = << >> THEN << >>
    ELSE InsertByExpiry(SortByExpiryDesc(SubSeq(seq, 1, Len(seq) - 1)),
                        seq[Len(seq)])

\* The filter chain of listAgentPermissions on the flattened relay answer:
\* relayKeys is a sequence of [hash, publicKey, type, role, expiry];
\* SelectSeq is Array.prototype.filter.
filterAgentKeys(relayKeys, agentKey, includeExpired, nowSeconds) ==
    LET IsAgentKey(candidate) ==
            /\ candidate.role = "normal"
            /\ normalizeRelayKeyType(candidate.type) = agentKey.type
            /\ toLowerCase(candidate.publicKey) = toLowerCase(agentKey.publicKey)
            /\ (includeExpired \/ candidate.expiry > nowSeconds)
        kept == SelectSeq(relayKeys, IsAgentKey)
    IN  SortByExpiryDesc(
            [i \in DOMAIN kept |->
                [expiry |-> kept[i].expiry, id |-> kept[i].hash,
                 key |-> [publicKey |-> kept[i].publicKey,
                          type |-> normalizeRelayKeyType(kept[i].type)]]])

\* One poll of waitForActivePermission on what porto.permissions returned
\* (includeExpired: true): the first unexpired snapshot by expiry descending.
waitForActivePermissionPoll(relayKeys, agentKey, nowSeconds) ==
    LET permissionSet == filterAgentKeys(relayKeys, agentKey, TRUE, nowSeconds)
        IsActive(permission) == isActivePermission(permission, nowSeconds)
        active == SortByExpiryDesc(SelectSeq(permissionSet, IsActive))
    IN  IF active = << >> THEN None ELSE Some(Head(active))

\* ---- the policy matcher of PortoService.findMatchingPermission (part_006)
\* policy is [calls, spendLimitWei, spendPeriod, spendToken]; calls = None is
\* the wildcard policy, spendToken = NULL the native token.
\* A default that is not the any-selector wildcard.
desiredCallsOf_NoWildcardDefault(policy) ==
    IF policy.calls # None THEN policy.calls[1]
    ELSE << Entry(PORTO_ANY_TARGET, TRANSFER_SELECTOR) >>

desiredCallsOf(policy) ==
    IF policy.calls # None THEN policy.calls[1]
    ELSE << Entry(PORTO_ANY_TARGET, PORTO_ANY_SELECTOR) >>

callsMatch(policy, calls) ==
    LET desiredCalls == desiredCallsOf(policy)
    IN  \A d \in DOMAIN desiredCalls :
            \E c \in DOMAIN calls :
                /\ calls[c].to # NULL
                /\ toLowerCase(calls[c].to) = toLowerCase(desiredCalls[d].to)
                /\ \/ desiredCalls[d].signature = NULL
                   \/ /\ calls[c].signature # NULL
                      /\ toLowerCase(calls[c].signature)
                            = toLowerCase(desiredCalls[d].signature)

isNativeToken(token) == token = NULL \/ token = NATIVE_TOKEN_ADDRESS

spendMatch(policy, spend) ==
    \E i \in DOMAIN spend :
        /\ spend[i].period = policy.spendPeriod
        /\ spend[i].limit = policy.spendLimitWei
        /\ IF policy.spendToken = NULL THEN isNativeToken(spend[i].token)
           ELSE /\ spend[i].token # NULL
                /\ toLowerCase(spend[i].token) = toLowerCase(policy.spendToken)

\* A lookup that never finds the stored pending record.
currentPendingPermission_Forgets(config, chainId) == None

\* --------------------------------------------------------- local pending
\* config is the parsed config file: [handle, address, chainId, pending,
\* permissionIds]; pending is None or Some([id, chainId, expiry, calls]).
currentPendingPermission(config, chainId) ==
    IF config.pending = None THEN None
    ELSE IF chainId # NO_ID /\ config.pending[1].chainId # chainId THEN None
    ELSE config.pending

\* PortoService.appendPrecallPermission (part_006): the precallPermissions
\* list of the config after the grant `granted` for address on chainId.
appendPrecallPermission(precallPermissions, address, chainId, granted) ==
    Append(precallPermissions,
           [address |-> address, chainId |-> chainId, expiry |-> granted.expiry,
            id |-> granted.id, calls |-> granted.calls])

\* The spend scope of a precall record granted with the default spend scope, as
\* appendPrecallPermission stores it (limit, period, token ?? null).
PrecallSpend ==
    << [limit |-> RequiredDailyLimit, period |-> "day", token |-> NULL] >>

\* The second loop of findMatchingPermission (part_006 630-642): the first
\* stored precall record of the address and chain that is unexpired and
\* matches the policy; None when there is none.
findMatchingPrecall(precallPermissions, address, chainId, nowSeconds, policy) ==
    LET Matches(p) ==
            /\ p.address = address
            /\ (chainId = NO_ID \/ p.chainId = chainId)
            /\ p.expiry > nowSeconds
            /\ callsMatch(policy, p.calls)
            /\ spendMatch(policy, PrecallSpend)
        found == SelectSeq(precallPermissions, Matches)
    IN  IF found = << >> THEN None
        ELSE Some([id |-> Head(found).id, chainId |-> Head(found).chainId])

\* Array.from(new Set(ids)) keeps the first occurrence of each identifier.
RECURSIVE Dedup(_)
Dedup(ids) ==
    IF ids = << >> THEN << >>
    ELSE LET rest == Dedup(SubSeq(ids, 1, Len(ids) - 1))
             last == ids[Len(ids)]
         IN  IF \E i \in DOMAIN rest : rest[i] = last THEN rest
             ELSE Append(rest, last)

\* A list that is appended to without looking for the identifier first.
ensurePermissionIdList_KeepsDuplicates(permissionIds, permissionId) ==
    Append(permissionIds, permissionId)

\* The permissionIds after ensurePermissionIdList(config, permissionId).
ensurePermissionIdList(permissionIds, permissionId) ==
    Dedup(Append(permissionIds, permissionId))

\* ------------------------------------------------------------------- state
VARIABLES
    disk,                \* the config file (lib/config.ts saveConfig / loadConfig)
    config,              \* the config object of the running process
    remote,              \* grants at the remote platform, by identifier
    now,                 \* the clock, in seconds
    pc,                  \* position of the configure run
    opts,                \* options of the configure run: [calls, createAccount, testnet,
                         \* headless] and nonInteractive, !isInteractive()
    address,             \* runConfigureFlow locals
    chainId,
    requiresGrant,
    grantedPermissionId,
    activePermission,
    activationState,
    permissionUpdated,
    checkpoints,
    polls,               \* sleeps of the current waitForActivePermission call
    reply,               \* answer of the remote request the step awaits
    out,                 \* what the last configure run printed
    statusOut,           \* what the last status command printed
    input,               \* arguments handed to a pure helper
    result,              \* what the helper returned for them
    prev,                \* history: how the previous run with this policy ended
    changed,             \* history: the remote platform moved since the run began
    runGranted,          \* history: a grant request of this run succeeded
    startSat,            \* history: <<account, chain>> pairs that had a record
                         \* satisfying the desired policy when the run began
    cleared,             \* history: the step of this run that removed a stored
                         \* pending record ("none": no step did)
    blocked,             \* the await a blocking operation is in, and its timers
    precallPermissions   \* config.porto.precallPermissions (part_006)

vars == << disk, config, remote, now, pc, opts, address, chainId, requiresGrant,
           grantedPermissionId, activePermission, activationState,
           permissionUpdated, checkpoints, polls, reply, out, statusOut, input,
           result, prev, changed, runGranted, startSat, cleared, blocked,
           precallPermissions >>

runLocals == << address, chainId, requiresGrant, grantedPermissionId,
                activePermission, activationState, permissionUpdated >>

history == << prev, changed, runGranted, startSat, cleared >>

\* What no configure step touches.
aside == << statusOut, input, result, blocked, precallPermissions >>

Chains == {BASE_CHAIN_ID, BASE_SEPOLIA_CHAIN_ID}

\* lib/config.ts DEFAULT_CONFIG
DEFAULT_CONFIG ==
    [handle |-> FALSE, address |-> NULL, chainId |-> NO_ID, pending |-> None,
     permissionIds |-> << >>]

\* The command lines of `agent-wallet configure`.
OptionSpace ==
    [calls : {None} \cup {Some(l) : l \in Allowlists},
     createAccount : BOOLEAN, testnet : {FALSE}, nonInteractive : {FALSE},
     headless : {FALSE}]

NoOutput ==
    [cmd |-> "none", ok |-> TRUE, code |-> NULL, state |-> NULL, pendingId |-> NO_ID,
     chainId |-> NO_ID]

\* No helper call is under study.
NoInput == [fn |-> "none"]

\* No blocking operation is in progress.
NotBlocked ==
    [op |-> "none", phase |-> "none", waited |-> 0, total |-> 0,
     status |-> "pending", txHash |-> FALSE]
NoResult == [by |-> "none", value |-> FALSE]

\* The state after construction: the default config file, no process running.
InitProgram ==
    /\ disk = DEFAULT_CONFIG
    /\ config = disk
    /\ remote = << >>
    /\ now = 0
    /\ pc = "idle"
    /\ opts = [calls |-> None, createAccount |-> FALSE, testnet |-> FALSE,
               nonInteractive |-> FALSE, headless |-> FALSE]
    /\ address = NULL
    /\ chainId = NO_ID
    /\ requiresGrant = FALSE
    /\ grantedPermissionId = NO_ID
    /\ activePermission = None
    /\ activationState = "pending_activation"
    /\ permissionUpdated = FALSE
    /\ checkpoints = << >>
    /\ polls = 0
    /\ reply = None
    /\ out = NoOutput
    /\ statusOut = NoOutput
    /\ prev = "other"
    /\ changed = FALSE
    /\ runGranted = FALSE
    /\ startSat = {}
    /\ cleared = "none"
    /\ blocked = NotBlocked

Init ==
    /\ InitProgram
    /\ input = NoInput
    /\ result = NoResult
    /\ precallPermissions = << >>

\* ------------------------------------------------------ the remote platform
\* getUnixExpirySeconds(undefined, defaults = true): now + 7 days, in seconds.
getUnixExpirySeconds == now + DEFAULT_EXPIRY_DAYS * 24 * 60 * 60

\* The spend scope PortoService.grant / buildGrantPermissionsParam request.
DefaultSpend ==
    << [limit |-> DEFAULT_PERMISSION_DAILY_USD * USD_BASE_UNITS, period |-> "day",
        token |-> NULL] >>

\* The relay stores a call scope as (to, selector) pairs: an absent target or
\* signature of the request is the platform's any-target / any-selector value.
RelayCalls(calls) ==
    [i \in DOMAIN calls |->
        Entry(IF calls[i].to = NULL THEN PORTO_ANY_TARGET ELSE calls[i].to,
              IF calls[i].signature = NULL THEN PORTO_ANY_SELECTOR
              ELSE calls[i].signature)]

\* PortoService.listAgentPermissions as porto.permissions returns it: the keys
\* of the agent key the relay lists for the account on the chain. A grant is
\* listed once its precall has settled.
listAgentPermissions(account, chain) ==
    {i \in DOMAIN remote :
        /\ remote[i].active
        /\ remote[i].account = account
        /\ remote[i].chainId = chain}

Snapshot(i) ==
    [id |-> i, expiry |-> remote[i].expiry, calls |-> RelayCalls(remote[i].calls),
     spend |-> DefaultSpend]

\* One poll of waitForActivePermission: of the unexpired snapshots, sorted by
\* expiry descending, the first; None when there is none. Every grant request
\* takes clock time, so no two records share an expiry.
ActiveNow(account, chain) ==
    LET live == {i \in listAgentPermissions(account, chain) :
                    isActivePermission(remote[i], now)}
    IN  IF live = {} THEN None
        ELSE Some(Snapshot(CHOOSE i \in live :
                    \A j \in live : remote[i].expiry >= remote[j].expiry))

\* What a grant request for `calls` leaves at the platform: a queued precall.
GrantRecord(account, chain, calls) ==
    [account |-> account, chainId |-> chain, calls |-> calls,
     expiry |-> getUnixExpirySeconds, active |-> FALSE]

getChain(testnet) == IF testnet THEN BASE_SEPOLIA_CHAIN_ID ELSE BASE_CHAIN_ID

\* ------------------------------------------------------------ checkpoints
Checkpoint(name, status) == [checkpoint |-> name, status |-> status]

\* A failure report that forgets the checkpoints completed so far.
makeCheckpointFailure_DropsHistory(name, cps) == << Checkpoint(name, "failed") >>

\* makeCheckpointFailure: the checkpoints so far plus one failed checkpoint.
makeCheckpointFailure(name, cps) == Append(cps, Checkpoint(name, "failed"))

FailureOutput(code) ==
    [cmd |-> "configure", ok |-> FALSE, code |-> code, state |-> NULL,
     pendingId |-> NO_ID, chainId |-> NO_ID]

\* The process exits: its memory (the config object, the locals) is gone.
ProcessExits ==
    /\ address' = NULL
    /\ chainId' = NO_ID
    /\ requiresGrant' = FALSE
    /\ grantedPermissionId' = NO_ID
    /\ activePermission' = None
    /\ activationState' = "pending_activation"
    /\ permissionUpdated' = FALSE
    /\ polls' = 0
    /\ reply' = None
    /\ startSat' = {}
    /\ cleared' = "none"

\* A step runner that reports the error and runs the step again.
StepFails_Retries(name, code, saved) ==
    /\ out' = FailureOutput(code)
    /\ UNCHANGED << disk, config, remote, now, pc, opts, runLocals, checkpoints,
                    polls, reply, aside, history >>

\* runConfigureStep's catch block: the step throws `code` after having saved
\* `saved`; the run ends with the failure payload.
StepFails(name, code, saved) ==
    /\ checkpoints' = makeCheckpointFailure(name, checkpoints)
    /\ out' = FailureOutput(code)
    /\ pc' = "failed"
    /\ disk' = saved
    /\ config' = saved
    /\ ProcessExits
    /\ UNCHANGED << remote, now, opts, aside, prev, changed, runGranted >>

\* A step runner that records the step's checkpoint twice.
StepReturns_PushesTwice(name, status, next) ==
    /\ checkpoints' = Append(Append(checkpoints, Checkpoint(name, status)),
                             Checkpoint(name, status))
    /\ pc' = next
    /\ polls' = 0
    /\ reply' = None

\* runConfigureStep's try block: the step returns `status`.
StepReturns(name, status, next) ==
    /\ checkpoints' = Append(checkpoints, Checkpoint(name, status))
    /\ pc' = next
    /\ polls' = 0
    /\ reply' = None

\* ------------------------------------------------------- history helpers
\* The spend scope configure synthesizes for a pending record (cli.ts 1679).
PendingSpend == << [limit |-> RequiredDailyLimit, period |-> "day", token |-> NULL] >>

\* The account a stored pending record was granted for.
PendingAccount(p, cfg) ==
    IF p.id \in DOMAIN remote THEN remote[p.id].account ELSE cfg.address

\* A record that satisfies `calls` (by the run's own matcher) exists for the
\* account on the chain: a live active one, or the stored pending one.
Satisfied(cfg, calls, account, chain) ==
    \/ \E i \in listAgentPermissions(account, chain) :
          /\ isActivePermission(remote[i], now)
          /\ permissionMatchesDefaultEnvelope(Snapshot(i), calls)
    \/ LET p == currentPendingPermission(cfg, chain)
       IN  IF p = None THEN FALSE
           ELSE /\ PendingAccount(p[1], cfg) = account
                /\ permissionMatchesDefaultEnvelope(
                       [calls |-> p[1].calls, spend |-> PendingSpend], calls)

\* The run repeats the options of the run before it.
SamePolicy(o) ==
    /\ o.calls = opts.calls
    /\ o.testnet = opts.testnet
    /\ ~o.createAccount

\* ------------------------------------------------------------- configure
\* runConfigureFlow up to its first step: loadConfig, parse the options,
\* initialise the locals.
StartRun(o) ==
    /\ pc \in {"idle", "done", "failed", "crashed"}
    /\ opts' = o
    /\ config' = disk
    /\ address' = disk.address
    /\ chainId' = disk.chainId
    /\ requiresGrant' = FALSE
    /\ grantedPermissionId' = NO_ID
    /\ activePermission' = None
    /\ activationState' = "pending_activation"
    /\ permissionUpdated' = FALSE
    /\ checkpoints' = << >>
    /\ polls' = 0
    /\ reply' = None
    /\ out' = NoOutput
    /\ statusOut' = NoOutput
    /\ UNCHANGED << input, result, blocked, precallPermissions >>
    /\ pc' = "agent_key"
    /\ prev' = IF ~SamePolicy(o) THEN "other"
               ELSE IF pc = "done" /\ ~changed THEN out.state
               ELSE IF pc \in {"failed", "crashed"} /\ runGranted THEN "interrupted"
               ELSE "other"
    /\ changed' = FALSE
    /\ runGranted' = FALSE
    /\ startSat' = IF o.calls = None THEN {}
                   ELSE {ac \in Accounts \X Chains :
                            Satisfied(disk, o.calls[1], ac[1], ac[2])}
    /\ cleared' = "none"
    /\ UNCHANGED << disk, remote, now >>

\* Step 1, agent_key: signer.init() creates the key when the config has no
\* handle, then saveConfig.
AgentKeyStep ==
    /\ pc = "agent_key"
    /\ \/ /\ config' = [config EXCEPT !.handle = TRUE]
          /\ disk' = config'
          /\ StepReturns("agent_key",
                         IF config.handle THEN "already_ok" ELSE "created",
                         "account")
          /\ UNCHANGED << remote, now, opts, runLocals, out, aside, history >>
       \/ StepFails("agent_key", "SIGNER_ERROR", disk)

\* Accounts the dialog can hand back: a new one with --create-account, any
\* account of the user otherwise.
UsedAccounts ==
    {config.address} \cup {remote[i].account : i \in DOMAIN remote}

DialogAccounts ==
    IF opts.createAccount THEN Accounts \ UsedAccounts ELSE Accounts

shouldOnboard == opts.createAccount \/ address = NULL

\* An onboarding that never looks at the session it runs in.
onboardRefuses_Never == FALSE

\* PortoService.onboard refuses a session without a terminal unless --headless
\* was given.
onboardRefuses == opts.nonInteractive /\ ~opts.headless

\* Step 2, account, without onboarding: the configured account is used.
AccountStepConfigured ==
    /\ pc = "account"
    /\ ~shouldOnboard
    /\ StepReturns("account", "already_ok", "permission_state")
    /\ UNCHANGED << disk, config, remote, now, opts, runLocals, out, aside,
                    history >>

\* PortoService.onboard: one wallet_connect that signs in and, when --calls
\* was given, carries the grant request. It mutates the config object.
OnboardRequest ==
    /\ pc = "account"
    /\ shouldOnboard
    /\ ~onboardRefuses
    /\ \/ \E a \in DialogAccounts, granted \in BOOLEAN :
             LET chain == getChain(opts.testnet)
                 id == Len(remote) + 1
                 addressChanged ==
                     /\ config.address # NULL
                     /\ toLowerCase(config.address) # toLowerCase(a)
                 existing == IF addressChanged THEN << >> ELSE config.permissionIds
             IN  /\ granted => (opts.calls # None /\ Len(remote) < MaxGrants)
                 /\ remote' = IF granted
                              THEN Append(remote, GrantRecord(a, chain, opts.calls[1]))
                              ELSE remote
                 /\ now' = IF granted THEN now + 1 ELSE now
                 /\ runGranted' = (runGranted \/ granted)
                 /\ config' = [config EXCEPT
                                  !.address = a,
                                  !.chainId = chain,
                                  !.permissionIds =
                                      IF granted THEN Dedup(Append(existing, id))
                                      ELSE existing]
                 /\ reply' = Some([address |-> a, chainId |-> chain,
                                   id |-> IF granted THEN id ELSE NO_ID,
                                   expiry |-> getUnixExpirySeconds])
                 /\ pc' = "account_onboarded"
                 /\ UNCHANGED << disk, opts, runLocals, checkpoints, polls, out,
                                 aside, prev, changed, startSat, cleared >>
       \/ StepFails("account", "ONBOARD_FAILED", disk)

\* The pending record configure writes for a grant.
PendingRecord(id, chain, expiry, calls) ==
    [id |-> id, chainId |-> chain, expiry |-> expiry,
     calls |-> [i \in DOMAIN calls |->
                   Entry(IF Falsy(calls[i].to) THEN NULL ELSE calls[i].to,
                         IF Falsy(calls[i].signature) THEN NULL
                         ELSE calls[i].signature)]]

\* Step 2, account, after porto.onboard returned.
AccountStepOnboarded ==
    /\ pc = "account_onboarded"
    /\ LET r == reply[1]
           hadConfiguredAccount == address # NULL
           status == IF hadConfiguredAccount THEN "updated" ELSE "created"
           recorded == [config EXCEPT
                           !.permissionIds = ensurePermissionIdList(@, r.id),
                           !.pending = Some(PendingRecord(r.id, r.chainId, r.expiry,
                                                          opts.calls[1]))]
       IN  IF r.id # NO_ID /\ opts.calls # None
           THEN IF ~assertSecureAllowlist(opts.calls[1], r.address)
                THEN StepFails("account", "INSECURE_SELF_ALLOWLIST", disk)
                ELSE /\ address' = r.address
                     /\ chainId' = r.chainId
                     /\ grantedPermissionId' = r.id
                     /\ permissionUpdated' = TRUE
                     /\ config' = recorded
                     /\ disk' = recorded
                     /\ StepReturns("account", status, "permission_state")
                     /\ UNCHANGED << remote, now, opts, requiresGrant,
                                     activePermission, activationState, out,
                                     aside, history >>
           ELSE /\ address' = r.address
                /\ chainId' = r.chainId
                /\ disk' = config
                /\ StepReturns("account", status, "permission_state")
                /\ UNCHANGED << config, remote, now, opts, requiresGrant,
                                grantedPermissionId, activePermission,
                                activationState, permissionUpdated, out, aside,
                                history >>

\* The guard `if (requestedCallAllowlist) assertSecureAllowlist(...)` passes.
RequestedSecure ==
    IF opts.calls = None THEN TRUE
    ELSE assertSecureAllowlist(opts.calls[1], address)

\* waitForActivePermission sleeps: the poll found no active permission and the
\* deadline has not passed.
WaitPoll ==
    /\ pc \in {"permission_state", "permission_classification"}
    /\ pc = "permission_state" => RequestedSecure
    /\ ActiveNow(address, chainId) = None
    /\ polls < MaxPolls
    /\ polls' = polls + 1
    /\ UNCHANGED << disk, config, remote, now, pc, opts, runLocals, checkpoints,
                    reply, out, aside, history >>

\* waitForActivePermission returns: a poll found an active permission, or the
\* deadline has passed.
PollReturns == ActiveNow(address, chainId) # None \/ polls = MaxPolls

\* A step that changes the config object and forgets saveConfig.
StepSaves_SkipsWrite(cfg) ==
    /\ config' = cfg
    /\ disk' = disk
    /\ cleared' = cleared
    /\ UNCHANGED << remote, now, opts, address, chainId, out, aside, prev, changed,
                    runGranted, startSat >>

\* A save that loses the pending record.
StepSaves_DropsPending(cfg) ==
    /\ config' = [cfg EXCEPT !.pending = None]
    /\ disk' = [cfg EXCEPT !.pending = None]
    /\ cleared' = IF disk.pending # None THEN pc ELSE cleared
    /\ UNCHANGED << remote, now, opts, address, chainId, out, aside, prev, changed,
                    runGranted, startSat >>

\* The rest of a step that returns: what it leaves in the config object is
\* saved, the remote platform and the history are untouched.
StepSaves(cfg) ==
    /\ config' = cfg
    /\ disk' = cfg
    /\ cleared' = IF disk.pending # None /\ cfg.pending = None THEN pc ELSE cleared
    /\ UNCHANGED << remote, now, opts, address, chainId, out, aside, prev, changed,
                    runGranted, startSat >>

\* A discovery step that never asks for a policy.
missingCallAllowlist_Never(requested, active, pending) == FALSE

\* `!requestedCallAllowlist && !activePermission && !pendingPermission`
\* (cli.ts 1640): there is nothing to reconcile against.
missingCallAllowlist(requested, active, pending) ==
    requested = None /\ active = None /\ pending = None

\* Step 3, permission_state (cli.ts 1601-1737).
PermissionStateStep ==
    /\ pc = "permission_state"
    /\ LET requested == opts.calls
           pending0 == currentPendingPermission(config, chainId)
           pendingInsecure ==
               IF pending0 = None THEN FALSE
               ELSE allowlistHasBroadSelfCall(pending0[1].calls, address)
           config1 == IF pendingInsecure THEN [config EXCEPT !.pending = None]
                      ELSE config
           saved1 == IF pendingInsecure THEN config1 ELSE disk
           pending == IF pendingInsecure THEN None ELSE pending0
           active0 == ActiveNow(address, chainId)
           activeInsecure ==
               IF active0 = None THEN FALSE
               ELSE allowlistHasBroadSelfCall(active0[1].calls, address)
           active == IF activeInsecure THEN None ELSE active0
           activeMatchesRequested ==
               IF requested = None \/ active = None THEN FALSE
               ELSE permissionMatchesDefaultEnvelope(active[1], requested[1])
           pendingMatchesRequested ==
               IF requested = None \/ pending = None THEN FALSE
               ELSE permissionMatchesDefaultEnvelope(
                        [calls |-> pending[1].calls, spend |-> PendingSpend],
                        requested[1])
           Keep(id) == [config1 EXCEPT
                           !.permissionIds = ensurePermissionIdList(@, id)]
       IN  IF ~RequestedSecure
           THEN StepFails("permission_state", "INSECURE_SELF_ALLOWLIST", disk)
           ELSE \/ StepFails("permission_state", "RELAY_REQUEST_FAILED", disk)
                \/ /\ PollReturns
                   /\ activeInsecure /\ requested = None
                   /\ StepFails("permission_state", "INSECURE_ACTIVE_PERMISSION",
                                saved1)
                \/ /\ PollReturns
                   /\ ~(activeInsecure /\ requested = None)
                   /\ missingCallAllowlist(requested, active, pending)
                   /\ StepFails("permission_state", "MISSING_CALL_ALLOWLIST", saved1)
                \/ /\ PollReturns
                   /\ activeMatchesRequested
                   /\ activationState' = "active_onchain"
                   /\ grantedPermissionId' = active[1].id
                   /\ activePermission' = active
                   /\ StepSaves([Keep(active[1].id) EXCEPT !.pending = None])
                   /\ StepReturns("permission_state", "already_ok",
                                  "permission_preparation")
                   /\ UNCHANGED << requiresGrant, permissionUpdated >>
                \/ /\ PollReturns
                   /\ ~activeMatchesRequested
                   /\ pendingMatchesRequested
                   /\ activationState' = "pending_activation"
                   /\ grantedPermissionId' = pending[1].id
                   /\ activePermission' = active
                   /\ StepSaves(Keep(pending[1].id))
                   /\ StepReturns("permission_state", "already_ok",
                                  "permission_preparation")
                   /\ UNCHANGED << requiresGrant, permissionUpdated >>
                \/ /\ PollReturns
                   /\ ~(activeInsecure /\ requested = None)
                   /\ ~missingCallAllowlist(requested, active, pending)
                   /\ ~activeMatchesRequested
                   /\ ~pendingMatchesRequested
                   /\ requiresGrant' = (requested # None)
                   /\ activePermission' = active
                   /\ IF active # None
                      THEN /\ grantedPermissionId' = active[1].id
                           /\ StepSaves(Keep(active[1].id))
                           /\ StepReturns("permission_state", "already_ok",
                                          "permission_preparation")
                      ELSE IF pending # None
                      THEN /\ grantedPermissionId' = pending[1].id
                           /\ StepSaves(Keep(pending[1].id))
                           /\ StepReturns("permission_state", "updated",
                                          "permission_preparation")
                      ELSE /\ StepSaves(config1)
                           /\ StepReturns("permission_state", "updated",
                                          "permission_preparation")
                           /\ UNCHANGED grantedPermissionId
                   /\ UNCHANGED << activationState, permissionUpdated >>

\* Step 4, permission_preparation, when no grant is needed.
PermissionPreparationSkip ==
    /\ pc = "permission_preparation"
    /\ ~requiresGrant
    /\ StepReturns("permission_preparation", "already_ok",
                   "permission_classification")
    /\ UNCHANGED << disk, config, remote, now, opts, runLocals, out, aside,
                    history >>

\* PortoService.grant: wallet_connect with grantPermissions for the configured
\* account. It adds the identifier to config.permissionIds.
GrantRequest ==
    /\ pc = "permission_preparation"
    /\ requiresGrant
    /\ \/ /\ Len(remote) < MaxGrants
          /\ LET id == Len(remote) + 1
             IN  /\ remote' = Append(remote,
                                 GrantRecord(address, chainId, opts.calls[1]))
                 /\ config' = [config EXCEPT
                       !.permissionIds = Dedup(Append(@, id))]
                 /\ reply' = Some([address |-> address, chainId |-> chainId,
                                   id |-> id, expiry |-> getUnixExpirySeconds])
          /\ now' = now + 1
          /\ runGranted' = TRUE
          /\ pc' = "preparation_granted"
          /\ UNCHANGED << disk, opts, runLocals, checkpoints, polls, out,
                          aside, prev, changed, startSat, cleared >>
       \/ StepFails("permission_preparation", "GRANT_FAILED", disk)

\* Step 4, permission_preparation, after porto.grant returned.
PermissionPreparationGranted ==
    /\ pc = "preparation_granted"
    /\ LET r == reply[1]
       IN  /\ permissionUpdated' = TRUE
           /\ grantedPermissionId' = r.id
           /\ StepSaves([config EXCEPT
                 !.permissionIds = ensurePermissionIdList(@, r.id),
                 !.pending = Some(PendingRecord(r.id, chainId, r.expiry,
                                                opts.calls[1]))])
           /\ StepReturns("permission_preparation", "updated",
                          "permission_classification")
    /\ UNCHANGED << requiresGrant, activePermission, activationState >>

\* A classifier that treats every unresolved pending state as an error.
notFinalized_Always(pending) == TRUE

\* `!pending && !grantedPermissionId` (cli.ts 1866-1867): nothing is left to
\* report as pending.
notFinalized(pending) == pending = None /\ grantedPermissionId = NO_ID

\* Step 5, permission_classification (cli.ts 1826-1889).
PermissionClassificationStep ==
    /\ pc = "permission_classification"
    /\ LET active == ActiveNow(address, chainId)
           pending == currentPendingPermission(config, chainId)
           desiredAllowlist ==
               IF opts.calls # None THEN opts.calls
               ELSE IF pending # None THEN Some(pending[1].calls)
               ELSE None
           state ==
               IF active # None /\ desiredAllowlist # None
               THEN IF permissionMatchesDefaultEnvelope(active[1], desiredAllowlist[1])
                    THEN "active_onchain" ELSE "pending_activation"
               ELSE IF active # None THEN "active_onchain"
               ELSE "pending_activation"
       IN  \/ StepFails("permission_classification", "RELAY_REQUEST_FAILED", disk)
           \/ /\ PollReturns
              /\ state = "active_onchain"
              /\ activePermission' = active
              /\ activationState' = state
              /\ grantedPermissionId' = active[1].id
              /\ StepSaves([config EXCEPT
                    !.permissionIds = ensurePermissionIdList(@, active[1].id),
                    !.pending = None])
              /\ StepReturns("permission_classification",
                    IF permissionUpdated THEN "updated" ELSE "already_ok",
                    "outcome")
              /\ UNCHANGED << requiresGrant, permissionUpdated >>
           \/ /\ PollReturns
              /\ state # "active_onchain"
              /\ notFinalized(pending)
              /\ StepFails("permission_classification", "PERMISSION_NOT_FINALIZED",
                           disk)
           \/ /\ PollReturns
              /\ state # "active_onchain"
              /\ ~notFinalized(pending)
              /\ activePermission' = active
              /\ activationState' = state
              /\ grantedPermissionId' =
                    IF pending = None THEN grantedPermissionId ELSE pending[1].id
              /\ StepReturns("permission_classification", "updated", "outcome")
              /\ UNCHANGED << disk, config, remote, now, opts, address, chainId,
                              requiresGrant, permissionUpdated, out, aside,
                              history >>

\* An outcome step that always reports already_ok.
outcomeStatus_AlwaysOk(state) == "already_ok"

\* The status of the outcome checkpoint (cli.ts 1903-1924).
outcomeStatus(state) ==
    IF state = "active_onchain" THEN "already_ok" ELSE "updated"

\* Step 6, outcome, and the value runConfigureFlow returns; the process exits.
OutcomeStep ==
    /\ pc = "outcome"
    /\ LET pendingAfterRun == currentPendingPermission(config, chainId)
       IN  out' = [cmd |-> "configure", ok |-> TRUE, code |-> NULL,
                   state |-> activationState,
                   pendingId |-> IF pendingAfterRun = None THEN NO_ID
                                 ELSE pendingAfterRun[1].id,
                   chainId |-> IF chainId # NO_ID THEN chainId ELSE config.chainId]
    /\ checkpoints' = Append(checkpoints,
          Checkpoint("outcome", outcomeStatus(activationState)))
    /\ pc' = "done"
    /\ config' = disk
    /\ ProcessExits
    /\ UNCHANGED << disk, remote, now, opts, aside, prev, changed, runGranted >>

\* The process is interrupted in the middle of a run: nothing is printed and
\* whatever saveConfig has not written is lost.
Crash ==
    /\ pc \notin {"idle", "done", "failed", "crashed"}
    /\ pc' = "crashed"
    /\ out' = NoOutput
    /\ checkpoints' = << >>
    /\ config' = disk
    /\ ProcessExits
    /\ UNCHANGED << disk, remote, now, opts, aside, prev, changed, runGranted >>

\* -------------------------------------------------------------- status
\* PortoService.permissionSummary: the number of unexpired listed keys.
permissionSummaryActive(account, chain) ==
    Cardinality({i \in listAgentPermissions(account, chain) :
                    remote[i].expiry > now})

\* agent-wallet status [--chain-id statusChain] (cli.ts 2083-2139).
StatusCommand(statusChain, relayFails) ==
    /\ pc \in {"idle", "done", "failed", "crashed"}
    /\ LET account == disk.address
           pendingPermission == currentPendingPermission(disk, statusChain)
           chain == IF statusChain # NO_ID THEN statusChain ELSE disk.chainId
           active == IF account = NULL \/ relayFails THEN 0
                     ELSE permissionSummaryActive(account, chain)
       IN  statusOut' =
               [cmd |-> "status", ok |-> TRUE, code |-> NULL,
                state |-> IF active > 0 THEN "active_onchain"
                          ELSE IF pendingPermission # None THEN "pending_activation"
                          ELSE "unconfigured",
                pendingId |-> IF pendingPermission = None THEN NO_ID
                              ELSE pendingPermission[1].id,
                chainId |-> chain]
    /\ UNCHANGED << disk, config, remote, now, pc, opts, runLocals, checkpoints,
                    polls, reply, out, input, result, history, blocked,
                    precallPermissions >>

\* ----------------------------------------------------------- environment
\* A queued precall settles: the first real send under the key consumed it.
Settle(i) ==
    /\ i \in DOMAIN remote
    /\ ~remote[i].active
    /\ remote' = [remote EXCEPT ![i].active = TRUE]
    /\ changed' = TRUE
    /\ UNCHANGED << disk, config, now, pc, opts, runLocals, checkpoints, polls,
                    reply, out, aside, prev, runGranted, startSat, cleared >>

Next ==
    \/ \E o \in OptionSpace : StartRun(o)
    \/ AgentKeyStep
    \/ AccountStepConfigured
    \/ OnboardRequest
    \/ AccountStepOnboarded
    \/ WaitPoll
    \/ PermissionStateStep
    \/ PermissionPreparationSkip
    \/ GrantRequest
    \/ PermissionPreparationGranted
    \/ PermissionClassificationStep
    \/ OutcomeStep
    \/ Crash
    \/ \E c \in Chains \cup {NO_ID}, f \in BOOLEAN : StatusCommand(c, f)
    \/ \E i \in 1..MaxGrants : Settle(i)

Spec == Init /\ [][Next]_vars

\* The command lines that also choose the network (--testnet), over one
\* allowlist.
OptionSpaceChains ==
    [calls : {None, Some(ListA)}, createAccount : BOOLEAN, testnet : BOOLEAN,
     nonInteractive : {FALSE}, headless : {FALSE}]

NextChains ==
    \/ \E o \in OptionSpaceChains : StartRun(o)
    \/ AgentKeyStep
    \/ AccountStepConfigured
    \/ OnboardRequest
    \/ AccountStepOnboarded
    \/ WaitPoll
    \/ PermissionStateStep
    \/ PermissionPreparationSkip
    \/ GrantRequest
    \/ PermissionPreparationGranted
    \/ PermissionClassificationStep
    \/ OutcomeStep
    \/ Crash
    \/ \E c \in Chains \cup {NO_ID}, f \in BOOLEAN : StatusCommand(c, f)
    \/ \E i \in 1..MaxGrants : Settle(i)

SpecChains == Init /\ [][NextChains]_vars

\* The account owner revokes a listed key in the management UI
\* (docs/permissions-plan.md, Revocation): the relay lists it no longer and
\* it never becomes live again.
Revoke(i) ==
    /\ i \in DOMAIN remote
    /\ remote[i].active
    /\ remote[i].expiry > now
    /\ remote' = [remote EXCEPT ![i].active = FALSE, ![i].expiry = 0]
    /\ changed' = TRUE
    /\ UNCHANGED << disk, config, now, pc, opts, runLocals, checkpoints, polls,
                    reply, out, aside, prev, runGranted, startSat, cleared >>

\* The program in an environment where keys are also revoked.
NextRevoke ==
    \/ \E o \in OptionSpace : StartRun(o)
    \/ AgentKeyStep
    \/ AccountStepConfigured
    \/ OnboardRequest
    \/ AccountStepOnboarded
    \/ WaitPoll
    \/ PermissionStateStep
    \/ PermissionPreparationSkip
    \/ GrantRequest
    \/ PermissionPreparationGranted
    \/ PermissionClassificationStep
    \/ OutcomeStep
    \/ Crash
    \/ \E c \in Chains \cup {NO_ID}, f \in BOOLEAN : StatusCommand(c, f)
    \/ \E i \in 1..MaxGrants : Settle(i)
    \/ \E i \in 1..MaxGrants : Revoke(i)

SpecRevoke == Init /\ [][NextRevoke]_vars

\* ------------------------------------------------ the helpers on their own
\* Sequences of length lo..hi over a set.
SeqsOf(S, lo, hi) == UNION {[1..n -> S] : n \in lo..hi}

MaxEntries == 2

\* Entries a --calls payload or a stored record can hold (parseCallsAllowlist
\* rejects an entry with neither target nor signature).
AllowlistEntries ==
    {e \in [to : {NULL, X1, "0xACC1", X2},
            signature : {NULL, "", PORTO_ANY_SELECTOR, TRANSFER_SELECTOR,
                         "transfer(address,uint256)"}] :
        ~(Falsy(e.to) /\ Falsy(e.signature))}

\* Entries of a call scope as the relay reports it.
ObservedEntries ==
    [to : {TARGET_A, "0xAAAA", TARGET_B, PORTO_ANY_TARGET},
     signature : {PORTO_ANY_SELECTOR, TRANSFER_SELECTOR, TRANSFER_FROM_SELECTOR}]

\* Entries of a desired call scope.
DesiredEntries ==
    {e \in [to : {NULL, TARGET_A, TARGET_B},
            signature : {NULL, TRANSFER_SELECTOR, "transfer(address,uint256)",
                         "transferFrom(address,address,uint256)"}] :
        ~(Falsy(e.to) /\ Falsy(e.signature))}

\* Spend entries of an observed record.
SpendEntries ==
    [limit : {90 * USD_BASE_UNITS, RequiredDailyLimit, 110 * USD_BASE_UNITS},
     period : {"day", "week"},
     token : {NULL, NATIVE_TOKEN_ADDRESS, USDC_TOKEN, "0x833589FC"}]

\* PermissionPolicy values (part_006): spendToken NULL is the native token;
\* the prompt also accepts the zero address typed out (part_009 62-72).
SpendPolicies ==
    [calls : {None},
     spendLimitWei : {90 * USD_BASE_UNITS, RequiredDailyLimit},
     spendPeriod : {"day", "week"},
     spendToken : {NULL, NATIVE_TOKEN_ADDRESS, USDC_TOKEN}]

\* The policy configure (cli.ts) grants and matches against: 100 USD a day,
\* no token named.
DefaultPolicy ==
    [calls |-> None, spendLimitWei |-> RequiredDailyLimit, spendPeriod |-> "day",
     spendToken |-> NULL]

\* Grants porto returns to PortoService.grant (part_006): identifier, expiry
\* and call scope.
GrantedPermissions ==
    [id : 1..MaxGrants, expiry : {DEFAULT_EXPIRY_DAYS * 24 * 60 * 60},
     calls : Allowlists]

\* The precallPermissions list of a config file: empty on a fresh machine,
\* else what earlier grants for the account X1 on Base appended.
StoredPrecalls ==
    {<< >>} \cup
    {appendPrecallPermission(<< >>, X1, BASE_CHAIN_ID, g) : g \in GrantedPermissions}

\* The agent's own key (signer getPortoKey: a p256 key).
AgentKey == [publicKey |-> "0xkey1", type |-> "p256"]

\* The clock of a poll, in seconds.
PollNow == 10

\* Key records the relay can list for an account: the agent's key (in
\* another letter case) or another key, of any type and role, expiring
\* before, at or after the poll.
RelayKeyRecords ==
    [hash : {1}, publicKey : {"0xKEY1", "0xkey2"},
     type : {"p256", "secp256k1", "webauthnp256"}, role : {"admin", "normal"},
     expiry : {PollNow - 1, PollNow, PollNow + 1}]

HelperInputs ==
    {[fn |-> "allowlist", allowlist |-> l, account |-> a] :
        l \in SeqsOf(AllowlistEntries, 1, MaxEntries), a \in {X1, "0xACC1", X2}}
    \cup
    {[fn |-> "calls", observed |-> c, desired |-> d] :
        c \in SeqsOf(ObservedEntries, 0, MaxEntries),
        d \in SeqsOf(DesiredEntries, 1, MaxEntries)}
    \cup
    {[fn |-> "lookup", stored |-> st, address |-> a, chainId |-> c, calls |-> l] :
        st \in StoredPrecalls, a \in {X1, "0xACC1", X2},
        c \in {NO_ID, BASE_CHAIN_ID, BASE_SEPOLIA_CHAIN_ID}, l \in Allowlists}
    \cup
    {[fn |-> "nocalls", observed |-> c] :
        c \in SeqsOf(ObservedEntries, 0, MaxEntries)}
    \cup
    {[fn |-> "spend", spend |-> sp, policy |-> p] :
        sp \in SeqsOf(SpendEntries, 0, 1), p \in SpendPolicies}
    \cup
    {[fn |-> "keys", relayKeys |-> k] : k \in SeqsOf(RelayKeyRecords, 0, MaxEntries)}
    \cup
    {[fn |-> "precall", stored |-> in[1], granted |-> in[2]] :
        in \in {p \in StoredPrecalls \X GrantedPermissions :
                   \A i \in DOMAIN p[1] : p[1][i].id # p[2].id}}

InitHelpers ==
    /\ InitProgram
    /\ input \in HelperInputs
    /\ result = NoResult
    /\ precallPermissions = << >>

Returns(by, value) ==
    /\ result.by = "none"
    /\ result' = [by |-> by, value |-> value]
    /\ UNCHANGED << disk, config, remote, now, pc, opts, runLocals, checkpoints,
                    polls, reply, out, statusOut, input, history, blocked,
                    precallPermissions >>

CallAssertSecureAllowlist ==
    /\ input.fn = "allowlist"
    /\ Returns("assertSecureAllowlist",
               assertSecureAllowlist(input.allowlist, input.account))

CallPermissionMatchesRequestedAllowlist ==
    /\ input.fn = "calls"
    /\ Returns("permissionMatchesRequestedAllowlist",
               permissionMatchesRequestedAllowlist(input.observed, input.desired))

\* part_006 types the target of a desired entry as required.
CallCallsMatch ==
    /\ input.fn = "calls"
    /\ \A d \in DOMAIN input.desired : input.desired[d].to # NULL
    /\ Returns("callsMatch",
               callsMatch([calls |-> Some(input.desired)], input.observed))

\* part_006 with a policy that names no calls.
CallCallsMatchNoCalls ==
    /\ input.fn = "nocalls"
    /\ Returns("callsMatch", callsMatch([calls |-> None], input.observed))

CallIncludesDailySpendLimit ==
    /\ input.fn = "spend"
    /\ Returns("includesDailySpendLimit", includesDailySpendLimit(input.spend))

CallSpendMatch ==
    /\ input.fn = "spend"
    /\ Returns("spendMatch", spendMatch(input.policy, input.spend))

\* PortoService.grant (part_006 787-790) records the grant it obtained.
CallAppendPrecallPermission ==
    /\ input.fn = "precall"
    /\ Returns("appendPrecallPermission",
               appendPrecallPermission(input.stored, X1, BASE_CHAIN_ID, input.granted))

\* findMatchingPermission when the relay lists no key of the agent: the
\* stored precall records decide.
CallFindMatchingPrecall ==
    /\ input.fn = "lookup"
    /\ Returns("findMatchingPrecall",
               findMatchingPrecall(input.stored, input.address, input.chainId,
                                   PollNow,
                                   [DefaultPolicy EXCEPT !.calls = Some(input.calls)]))

CallWaitForActivePermission ==
    /\ input.fn = "keys"
    /\ Returns("waitForActivePermission",
               waitForActivePermissionPoll(input.relayKeys, AgentKey, PollNow))

NextHelpers ==
    \/ CallWaitForActivePermission
    \/ CallAppendPrecallPermission
    \/ CallAssertSecureAllowlist
    \/ CallPermissionMatchesRequestedAllowlist
    \/ CallCallsMatch
    \/ CallCallsMatchNoCalls
    \/ CallFindMatchingPrecall
    \/ CallIncludesDailySpendLimit
    \/ CallSpendMatch

SpecHelpers == InitHelpers /\ [][NextHelpers]_vars

\* ------------------------------------------------------ the passing of time
\* Weeks that pass between runs.
MaxWeeks == 1

SecondsPerWeek == 7 * 24 * 60 * 60

\* A week passes while no command runs: what was granted or recorded a week
\* ago has expired.
TimePasses ==
    /\ pc \in {"idle", "done", "failed", "crashed"}
    /\ now < MaxWeeks * SecondsPerWeek
    /\ now' = now + SecondsPerWeek
    /\ changed' = TRUE
    /\ UNCHANGED << disk, config, remote, pc, opts, runLocals, checkpoints, polls,
                    reply, out, aside, prev, runGranted, startSat, cleared >>

NextExpiry ==
    \/ \E o \in OptionSpace : StartRun(o)
    \/ AgentKeyStep
    \/ AccountStepConfigured
    \/ OnboardRequest
    \/ AccountStepOnboarded
    \/ WaitPoll
    \/ PermissionStateStep
    \/ PermissionPreparationSkip
    \/ GrantRequest
    \/ PermissionPreparationGranted
    \/ PermissionClassificationStep
    \/ OutcomeStep
    \/ Crash
    \/ \E c \in Chains \cup {NO_ID}, f \in BOOLEAN : StatusCommand(c, f)
    \/ \E i \in 1..MaxGrants : Settle(i)
    \/ TimePasses

SpecExpiry == Init /\ [][NextExpiry]_vars

\* ------------------------------------------------------ sessions
\* The command lines run from a terminal, from a session without one, and
\* from such a session with --headless.
OptionSpaceSessions ==
    {o \in [calls : {None, Some(ListA)}, createAccount : BOOLEAN,
            testnet : {FALSE}, nonInteractive : BOOLEAN, headless : BOOLEAN] :
        o.headless => o.nonInteractive}

\* Step 2, account: porto.onboard throws NON_INTERACTIVE_REQUIRES_FLAGS before
\* it opens a wallet session.
OnboardRefused ==
    /\ pc = "account"
    /\ shouldOnboard
    /\ onboardRefuses
    /\ StepFails("account", "NON_INTERACTIVE_REQUIRES_FLAGS", disk)

NextSessions ==
    \/ \E o \in OptionSpaceSessions : StartRun(o)
    \/ AgentKeyStep
    \/ AccountStepConfigured
    \/ OnboardRequest
    \/ OnboardRefused
    \/ AccountStepOnboarded
    \/ WaitPoll
    \/ PermissionStateStep
    \/ PermissionPreparationSkip
    \/ GrantRequest
    \/ PermissionPreparationGranted
    \/ PermissionClassificationStep
    \/ OutcomeStep
    \/ Crash
    \/ \E c \in Chains \cup {NO_ID}, f \in BOOLEAN : StatusCommand(c, f)
    \/ \E i \in 1..MaxGrants : Settle(i)

SpecSessions == Init /\ [][NextSessions]_vars

\* ------------------------------------------------- blocking operations
\* The operations of a run that wait: for the relay, for the owner's dialog,
\* for a sleep. Time is counted in milliseconds, in steps of TickMs, up to the
\* horizon MaxWaitMs.
TickMs == 500
MaxWaitMs == 100000

RELAY_REQUEST_TIMEOUT_MS == 20000
SEND_STAGE_TIMEOUT_MS == 90000
SEND_STATUS_REQUEST_TIMEOUT_MS == 12000
SEND_STATUS_POLL_TIMEOUT_MS == 45000
SEND_STATUS_POLL_INTERVAL_MS == 1500
PERMISSION_DISCOVERY_INTERVAL_MS == 1000
CONFIGURE_STATE_DISCOVERY_TIMEOUT_MS == 12000

\* The calls under study: the poll configure uses for discovery and for
\* classification, the grant request, and a send with the stored precalls.
WaitInputs ==
    {[fn |-> "waitForActivePermission"], [fn |-> "grant"]}
    \cup {[fn |-> "send", stored |-> st] : st \in StoredPrecalls}

InitWaits ==
    /\ InitProgram
    /\ input \in WaitInputs
    /\ result = NoResult
    /\ precallPermissions = IF input.fn = "send" THEN input.stored ELSE << >>

\* The timer the code arms for the await of a phase: None when it arms none.
armedTimeout(phase) ==
    CASE phase = "relay" -> Some(RELAY_REQUEST_TIMEOUT_MS)
      [] phase \in {"prepare", "submit"} -> Some(SEND_STAGE_TIMEOUT_MS)
      [] phase = "status" -> Some(SEND_STATUS_REQUEST_TIMEOUT_MS)
      [] phase = "sleep" ->
            Some(IF blocked.op = "send" THEN SEND_STATUS_POLL_INTERVAL_MS
                 ELSE PERMISSION_DISCOVERY_INTERVAL_MS)
      [] OTHER -> None

TimerFired ==
    IF armedTimeout(blocked.phase) = None THEN FALSE
    ELSE blocked.waited >= armedTimeout(blocked.phase)[1]

WaitUnchanged ==
    UNCHANGED << disk, config, remote, now, pc, opts, runLocals, checkpoints,
                 polls, reply, out, statusOut, input, history >>

\* The operation moves to its next await.
Awaits(phase, total) ==
    /\ blocked' = [blocked EXCEPT !.phase = phase, !.waited = 0, !.total = total]
    /\ UNCHANGED << result, precallPermissions >>
    /\ WaitUnchanged

\* What an operation that is over leaves behind: the status it returned or
\* the code it threw, and the transaction hash if it has one.
Ended(status, txHash) ==
    [NotBlocked EXCEPT !.phase = "ended", !.status = status, !.txHash = txHash]

\* The operation returns (returned) or throws, without touching the stored
\* precalls.
WaitEnds(by, returned, status) ==
    /\ blocked' = Ended(status, FALSE)
    /\ result' = [by |-> by, value |-> returned]
    /\ UNCHANGED precallPermissions
    /\ WaitUnchanged

\* Time passes while the operation waits: until the armed timer fires, or,
\* where the code arms none, until the horizon.
Tick ==
    /\ blocked.op # "none"
    /\ ~TimerFired
    /\ blocked.total < MaxWaitMs
    /\ blocked' = [blocked EXCEPT !.waited = @ + TickMs, !.total = @ + TickMs]
    /\ UNCHANGED << result, precallPermissions >>
    /\ WaitUnchanged

Enters(op, phase) ==
    /\ input.fn = op
    /\ blocked.op = "none"
    /\ result.by = "none"
    /\ blocked' = [NotBlocked EXCEPT !.op = op, !.phase = phase]
    /\ UNCHANGED << result, precallPermissions >>
    /\ WaitUnchanged

\* waitForActivePermission: deadline = Date.now() + timeoutMs, first query.
waitForActivePermission_Enter == Enters("waitForActivePermission", "relay")

\* porto.permissions answered: return the permission found; return null once
\* the deadline has passed; sleep otherwise.
RelayAnswers(found) ==
    /\ blocked.op = "waitForActivePermission"
    /\ blocked.phase = "relay"
    /\ IF found THEN WaitEnds("waitForActivePermission", TRUE, "permission")
       ELSE IF blocked.total >= CONFIGURE_STATE_DISCOVERY_TIMEOUT_MS
       THEN WaitEnds("waitForActivePermission", TRUE, NULL)
       ELSE Awaits("sleep", blocked.total)

\* requestRelay: AbortSignal.timeout(RELAY_REQUEST_TIMEOUT_MS) aborts the
\* fetch, or the relay fails; either way the poll throws.
RelayThrows ==
    /\ blocked.op = "waitForActivePermission"
    /\ blocked.phase = "relay"
    /\ WaitEnds("waitForActivePermission", FALSE,
                IF TimerFired THEN "RELAY_REQUEST_TIMEOUT" ELSE "RELAY_HTTP_ERROR")

\* sleep(intervalMs) is over: the next query, or, in waitForBundleSettlement,
\* the loop condition Date.now() <= deadline first.
SleepEnds ==
    /\ blocked.phase = "sleep"
    /\ TimerFired
    /\ IF blocked.op = "waitForActivePermission" THEN Awaits("relay", blocked.total)
       ELSE IF blocked.total <= SEND_STATUS_POLL_TIMEOUT_MS
       THEN Awaits("status", blocked.total)
       ELSE /\ blocked' = Ended(blocked.status, blocked.txHash)
            /\ precallPermissions' = << >>
            /\ result' = [by |-> "send", value |-> TRUE]
            /\ WaitUnchanged

\* PortoService.grant: WalletActions.connect opens the owner's dialog.
grant_Enter == Enters("grant", "dialog")

\* The owner answers the dialog, or closes it.
DialogAnswers(granted) ==
    /\ blocked.op = "grant"
    /\ blocked.phase = "dialog"
    /\ WaitEnds("grant", granted, IF granted THEN "granted" ELSE "GRANT_FAILED")

\* PortoService.send: prepareCalls under withTimeout.
send_Enter == Enters("send", "prepare")

\* prepareCalls answered; the digest is signed locally; sendPreparedCalls
\* under withTimeout.
PrepareAnswers(ok) ==
    /\ blocked.op = "send"
    /\ blocked.phase = "prepare"
    /\ IF ok THEN Awaits("submit", 0)
       ELSE WaitEnds("send", FALSE, "PORTO_SEND_PREPARE_FAILED")

\* sendPreparedCalls answered with a bundle id: waitForBundleSettlement
\* starts its deadline and sends the first status query.
SubmitAnswers(ok) ==
    /\ blocked.op = "send"
    /\ blocked.phase = "submit"
    /\ IF ok THEN Awaits("status", 0)
       ELSE WaitEnds("send", FALSE, "PORTO_SEND_SUBMIT_FAILED")

\* withTimeout rejects a prepare or submit stage after SEND_STAGE_TIMEOUT_MS.
StageTimesOut ==
    /\ blocked.op = "send"
    /\ blocked.phase \in {"prepare", "submit"}
    /\ TimerFired
    /\ WaitEnds("send", FALSE, IF blocked.phase = "prepare"
                               THEN "PORTO_SEND_PREPARE_TIMEOUT"
                               ELSE "PORTO_SEND_SUBMIT_TIMEOUT")

\* waitForBundleSettlement returned {status, txHash}: send empties the stored
\* precall list and returns.
sendReturns(status, txHash) ==
    /\ blocked' = Ended(status, txHash)
    /\ precallPermissions' = << >>
    /\ result' = [by |-> "send", value |-> TRUE]
    /\ WaitUnchanged

\* The loop body of waitForBundleSettlement after a query that did not break:
\* break when the next sleep would pass the deadline, sleep otherwise.
AfterStatusQuery(status) ==
    IF blocked.total + SEND_STATUS_POLL_INTERVAL_MS > SEND_STATUS_POLL_TIMEOUT_MS
    THEN sendReturns(status, FALSE)
    ELSE /\ blocked' = [blocked EXCEPT !.phase = "sleep", !.waited = 0,
                                       !.status = status]
         /\ UNCHANGED << result, precallPermissions >>
         /\ WaitUnchanged

\* getCallsStatus answered: a hash or a status other than pending ends the
\* loop.
StatusAnswers(status, txHash) ==
    /\ blocked.op = "send"
    /\ blocked.phase = "status"
    /\ txHash => status = "success"
    /\ IF txHash \/ status # "pending" THEN sendReturns(status, txHash)
       ELSE AfterStatusQuery(status)

\* The status query timed out or failed: caught, the loop goes on with the
\* status it had.
StatusThrows ==
    /\ blocked.op = "send"
    /\ blocked.phase = "status"
    /\ AfterStatusQuery(blocked.status)

NextWaits ==
    \/ waitForActivePermission_Enter
    \/ \E found \in BOOLEAN : RelayAnswers(found)
    \/ RelayThrows
    \/ SleepEnds
    \/ grant_Enter
    \/ \E granted \in BOOLEAN : DialogAnswers(granted)
    \/ send_Enter
    \/ \E ok \in BOOLEAN : PrepareAnswers(ok)
    \/ \E ok \in BOOLEAN : SubmitAnswers(ok)
    \/ StageTimesOut
    \/ \E status \in {"pending", "success", "failure"}, txHash \in BOOLEAN :
          StatusAnswers(status, txHash)
    \/ StatusThrows
    \/ Tick

SpecWaits == InitWaits /\ [][NextWaits]_vars

\* ================================================================== claims
\* An unsafe self-call entry as the specification words it: the target is the
\* account's own address and the selector is absent or the wildcard-any one.
UnsafeSelfCall(entry, account) ==
    /\ ~Falsy(entry.to)
    /\ toLowerCase(entry.to) = toLowerCase(account)
    /\ \/ Falsy(entry.signature)
       \/ toLowerCase(entry.signature) = PORTO_ANY_SELECTOR

HasUnsafeSelfCall(calls, account) ==
    \E i \in DOMAIN calls : UnsafeSelfCall(calls[i], account)

\* C1: a run that began with an active or pending record satisfying the
\* desired policy for its account never reaches the grant request of the
\* preparation step.
C1_NoGrantWhenAlreadySatisfied ==
    ~(/\ pc = "permission_preparation"
      /\ requiresGrant
      /\ << address, chainId >> \in startSat)

\* C2: every grant request the remote platform has received, bundled into
\* onboarding or sent by the preparation step, carried a policy without an
\* unsafe self-call entry for the account it was granted on.
C2_NoGrantRequestForUnsafePolicy ==
    \A i \in DOMAIN remote : ~HasUnsafeSelfCall(remote[i].calls, remote[i].account)

\* C3: assertSecureAllowlist throws exactly when the list holds at least one
\* unsafe self-call entry, whatever its other entries are.
C3_ValidationFailsIffUnsafeSelfCall ==
    result.by = "assertSecureAllowlist" =>
        (~result.value <=> HasUnsafeSelfCall(input.allowlist, input.account))

\* C3 witness: a two-entry list was rejected for one unsafe self-call entry
\* standing next to a harmless entry.
C3_Witness ==
    /\ result.by = "assertSecureAllowlist"
    /\ ~result.value
    /\ Len(input.allowlist) = MaxEntries
    /\ \E i, j \in DOMAIN input.allowlist :
          /\ UnsafeSelfCall(input.allowlist[i], input.account)
          /\ ~UnsafeSelfCall(input.allowlist[j], input.account)

\* C4: when a run reaches its outcome with the verdict active_onchain, the
\* active record the verdict rests on holds no unsafe self-call entry.
C4_ActiveVerdictRestsOnValidatedRecord ==
    (pc = "outcome" /\ activationState = "active_onchain") =>
        IF activePermission = None THEN FALSE
        ELSE ~HasUnsafeSelfCall(activePermission[1].calls, address)

\* C5: neither status nor configure reports a stored pending record that holds
\* an unsafe self-call entry for the configured account.
C5_InsecurePendingNeverReported ==
    \A o \in {out, statusOut} :
        (o.cmd # "none" /\ o.pendingId # NO_ID) =>
            IF disk.pending = None THEN TRUE
            ELSE ~(/\ disk.pending[1].id = o.pendingId
                   /\ HasUnsafeSelfCall(disk.pending[1].calls, disk.address))

\* Every normalized desired entry is present in the observed call scope.
DesiredEntriesPresent(desired, observed) ==
    \A d \in DOMAIN desired :
        \E c \in DOMAIN observed : normalize(observed[c]) = normalize(desired[d])

\* C6: configure's call-scope matcher accepts an observed record whenever
\* every normalized desired entry is present in the record's call scope.
C6_CallScopeMatchIsSubsetCheck ==
    (/\ result.by = "permissionMatchesRequestedAllowlist"
     /\ DesiredEntriesPresent(input.desired, input.observed))
        => result.value

\* absent, zero address and native token are one token.
CanonicalToken(token) ==
    IF token = NULL \/ token = NATIVE_TOKEN_ADDRESS THEN NATIVE_TOKEN_ADDRESS
    ELSE toLowerCase(token)

\* Some spend entry equals the policy in period, limit and canonical token.
ExactSpendEntry(policy, spend) ==
    \E i \in DOMAIN spend :
        /\ spend[i].period = policy.spendPeriod
        /\ spend[i].limit = policy.spendLimitWei
        /\ CanonicalToken(spend[i].token) = CanonicalToken(policy.spendToken)

\* C7: configure's spend matcher accepts an observed record only if one of its
\* spend entries equals the desired policy (100 USD a day, native token) in
\* period, limit and token.
C7_SpendMatchIsExact ==
    (result.by = "includesDailySpendLimit" /\ result.value)
        => ExactSpendEntry(DefaultPolicy, input.spend)

\* The run at hand has completed and repeats the options of a completed run
\* before it, and the remote platform has not moved since that run began.
CompletedRerun ==
    /\ pc = "done"
    /\ prev \in {"active_onchain", "pending_activation"}
    /\ ~changed

\* already_ok for the verdict active_onchain, updated for pending_activation.
VerdictStatus == IF out.state = "active_onchain" THEN "already_ok" ELSE "updated"

StatusOf(name) ==
    {checkpoints[i].status : i \in {j \in DOMAIN checkpoints :
                                       checkpoints[j].checkpoint = name}}

C9_NoGrantAfterInterruptedGrant ==
    [][prev' = "interrupted" => Len(remote') = Len(remote)]_vars

\* The local pending record is present before the step and absent after it.
PendingDeleted == disk.pending # None /\ disk'.pending = None

\* C10 as stated: the stored pending record is deleted only by the
\* classification step, on the verdict active_onchain.
C10_PendingDeletedOnlyByClassifier ==
    [][PendingDeleted =>
          (pc = "permission_classification" /\ activationState' = "active_onchain")
      ]_vars

\* C10 amended: the stored pending record is deleted only (a) by the discovery
\* step when the record holds an unsafe self-call entry, (b) by the discovery
\* step when the active record matches the requested policy, (c) by the
\* classification step on the verdict active_onchain; classification with that
\* verdict always leaves no pending record; every other step leaves the
\* record in place or overwrites it with a new grant.
C10_PendingDeletedOnlyAtThreeSites ==
    [][/\ PendingDeleted =>
            \/ /\ pc = "permission_state"
               /\ \/ HasUnsafeSelfCall(disk.pending[1].calls, address)
                  \/ activationState' = "active_onchain"
            \/ /\ pc = "permission_classification"
               /\ activationState' = "active_onchain"
       /\ (pc = "permission_classification" /\ pc' = "outcome"
              /\ activationState' = "active_onchain") => disk'.pending = None
      ]_vars

\* C10 witness: the discovery step has removed the stored pending record and
\* the run goes on.
C10_Witness ==
    /\ cleared = "permission_state"
    /\ pc = "permission_preparation"

\* The policy the classification step classifies against: the requested
\* allowlist, else the call scope of the stored pending record.
ClassifiedAllowlist ==
    IF opts.calls # None THEN opts.calls
    ELSE IF currentPendingPermission(config, chainId) # None
         THEN Some(currentPendingPermission(config, chainId)[1].calls)
    ELSE None

\* Some unexpired record listed for the run's account and chain matches the
\* classified policy (any such record, when there is no policy to classify
\* against).
MatchingActiveVisible ==
    IF ClassifiedAllowlist = None THEN ActiveNow(address, chainId) # None
    ELSE \E i \in listAgentPermissions(address, chainId) :
            /\ isActivePermission(remote[i], now)
            /\ permissionMatchesDefaultEnvelope(Snapshot(i), ClassifiedAllowlist[1])

\* C11: when the classification step returns while an active record matching
\* the policy is visible at the remote platform, its verdict is
\* active_onchain, whichever other active records are visible.
C11_MatchingActiveGivesActiveOnchain ==
    [][(/\ pc = "permission_classification"
        /\ pc' = "outcome"
        /\ MatchingActiveVisible) => activationState' = "active_onchain"]_vars

\* The record the classification poll observes is the stored pending grant,
\* now active at the remote platform.
PendingGrantObservedActive ==
    LET pending == currentPendingPermission(config, chainId)
        active == ActiveNow(address, chainId)
    IN  IF pending = None \/ active = None THEN FALSE
        ELSE active[1].id = pending[1].id

C13_TimeoutIsPendingNotError ==
    [][/\ (/\ pc = "permission_classification"
           /\ pc' \notin {"permission_classification", "crashed"}
           /\ out'.code # "RELAY_REQUEST_FAILED"
           /\ ~MatchingActiveVisible)
              => /\ pc' = "outcome"
                 /\ activationState' = "pending_activation"
                 /\ disk' = disk
       /\ (pc = "outcome" /\ pc' # "outcome" /\ pc' # "crashed")
              => /\ pc' = "done"
                 /\ out'.ok
                 /\ out'.state = activationState
                 /\ checkpoints'[Len(checkpoints')].checkpoint = "outcome"
      ]_vars

\* C13 witness: a run has completed with the verdict pending_activation while
\* no active record is listed for its account and the pending record is kept.
C13_Witness ==
    /\ pc = "done"
    /\ out.state = "pending_activation"
    /\ out.pendingId # NO_ID
    /\ disk.pending # None
    /\ ActiveNow(disk.address, disk.chainId) = None

\* C14: the local store never holds more than one pending record: after a
\* grant has been recorded, the list of locally held pending (precall)
\* records has at most one element, the fresh grant.
C14_AtMostOnePendingRecord ==
    result.by = "appendPrecallPermission" =>
        /\ Len(result.value) <= 1
        /\ result.value[Len(result.value)].id = input.granted.id

\* C15: no output of configure or status reports a pending record whose
\* chain differs from the chain the command ran for.
C15_OtherChainPendingNeverReported ==
    \A o \in {out, statusOut} :
        (o.cmd # "none" /\ o.pendingId # NO_ID) =>
            IF disk.pending = None THEN TRUE
            ELSE disk.pending[1].id = o.pendingId
                    => disk.pending[1].chainId = o.chainId

\* A key record of the relay answer that is the agent's own key, by public
\* key and key type, and has not expired.
OwnLiveKey(k) ==
    /\ toLowerCase(k.publicKey) = toLowerCase(AgentKey.publicKey)
    /\ k.type = AgentKey.type
    /\ k.expiry > PollNow

\* C16: the record state discovery returns as active is one of the relay's
\* key records whose public key and key type are the agent's own and whose
\* expiry is strictly greater than now; when the relay lists no such record,
\* none is returned.
C16_ActiveOnlyOwnUnexpiredKey ==
    (result.by = "waitForActivePermission" /\ result.value # None) =>
        \E i \in DOMAIN input.relayKeys :
            /\ OwnLiveKey(input.relayKeys[i])
            /\ input.relayKeys[i].expiry = result.value[1].expiry
            /\ input.relayKeys[i].publicKey = result.value[1].key.publicKey

\* C16 witness: the relay listed the agent's key next to a record that is
\* expired or of another key, and the agent's record was returned as active.
C16_Witness ==
    /\ result.by = "waitForActivePermission"
    /\ result.value # None
    /\ \E i \in DOMAIN input.relayKeys : ~OwnLiveKey(input.relayKeys[i])

\* C17: when the discovery step ends, other than by a failed relay request,
\* in a run that was given no policy and finds neither an active record at
\* the remote platform nor a stored pending record, it fails with
\* MISSING_CALL_ALLOWLIST, and the run has requested and requests no grant.
C17_NoPolicyNoRecordFails ==
    [][(/\ pc = "permission_state"
        /\ pc' \notin {"permission_state", "crashed"}
        /\ out'.code # "RELAY_REQUEST_FAILED"
        /\ opts.calls = None
        /\ ActiveNow(address, chainId) = None
        /\ currentPendingPermission(config, chainId) = None)
           => /\ pc' = "failed"
              /\ out'.code = "MISSING_CALL_ALLOWLIST"
              /\ checkpoints'[Len(checkpoints')] =
                     Checkpoint("permission_state", "failed")
              /\ ~runGranted
              /\ remote' = remote
      ]_vars

\* C17 witness: a run without --calls on a machine with an account but no
\* record has failed with MISSING_CALL_ALLOWLIST.
C17_Witness ==
    /\ pc = "failed"
    /\ out.code = "MISSING_CALL_ALLOWLIST"
    /\ opts.calls = None
    /\ disk.address # NULL
    /\ disk.pending = None
    /\ ActiveNow(disk.address, disk.chainId) = None

\* C18: a run that was given no policy never gets as far as reporting a
\* verdict while the active record it holds contains an unsafe self-call
\* entry: it has failed before.
C18_NoPolicyInsecureActiveFailsHard ==
    (pc = "outcome" /\ opts.calls = None) =>
        IF activePermission = None THEN TRUE
        ELSE ~HasUnsafeSelfCall(activePermission[1].calls, address)

\* What state discovery throws away: a stored pending record of the run's
\* chain that fails the security validator, or, when a policy was supplied,
\* an active record that fails it.
DiscoveryDiscardsInsecure ==
    \/ IF currentPendingPermission(config, chainId) = None THEN FALSE
       ELSE allowlistHasBroadSelfCall(
                currentPendingPermission(config, chainId)[1].calls, address)
    \/ /\ opts.calls # None
       /\ IF ActiveNow(address, chainId) = None THEN FALSE
          ELSE allowlistHasBroadSelfCall(ActiveNow(address, chainId)[1].calls,
                                         address)

\* C19: when state discovery gets as far as discarding an insecure active
\* record or deleting an insecure pending record, the step's result says so:
\* it ends with an insecure-state condition of its own, not with an ordinary
\* already_ok/updated checkpoint or an unrelated error.
C19_DiscardedInsecureStateIsSurfaced ==
    [][(/\ pc = "permission_state"
        /\ pc' \notin {"permission_state", "crashed"}
        /\ out'.code \notin {"RELAY_REQUEST_FAILED", "INSECURE_SELF_ALLOWLIST"}
        /\ DiscoveryDiscardsInsecure)
        => (/\ pc' = "failed"
            /\ out'.code = "INSECURE_ACTIVE_PERMISSION")]_vars

\* The order in which runConfigureFlow calls runConfigureStep.
CheckpointOrder ==
    << "agent_key", "account", "permission_state", "permission_preparation",
       "permission_classification", "outcome" >>

StepOf(p) ==
    IF p = "account_onboarded" THEN "account"
    ELSE IF p = "preparation_granted" THEN "permission_preparation"
    ELSE p

\* C21: when a step raises an error, the run is over: the checkpoint list
\* returned is the list of the checkpoints completed so far (none of them
\* failed) followed by exactly one failed checkpoint named after the aborting
\* step, and nothing happens to the failed run afterwards but the start of
\* a new run with an empty list.
C21_FailureAbortsWithOneFailedCheckpoint ==
    [][/\ (pc # "failed" /\ pc' = "failed")
              => /\ checkpoints' =
                        Append(checkpoints, Checkpoint(StepOf(pc), "failed"))
                 /\ \A i \in DOMAIN checkpoints :
                        checkpoints[i].status # "failed"
                 /\ ~out'.ok
       /\ pc = "failed"
              => \/ pc' = "failed" /\ checkpoints' = checkpoints /\ out' = out
                 \/ pc' = "agent_key" /\ checkpoints' = << >>]_vars

C21_Witness ==
    /\ pc = "failed"
    /\ Len(checkpoints) >= 4
    /\ checkpoints[Len(checkpoints)] =
           Checkpoint("permission_preparation", "failed")

\* C22: an error of a configure step, a failed remote request included, ends
\* the run in the same transition and sends nothing more; on behalf of the
\* failed run no request is sent, no poll is made and nothing is written
\* until the caller starts the flow again.
C22_NothingIsRetried ==
    [][/\ (out' # out /\ out'.cmd = "configure" /\ ~out'.ok)
              => (pc' = "failed" /\ remote' = remote /\ polls' = 0)
       /\ pc = "failed"
              => \/ pc' = "agent_key"
                 \/ /\ pc' = "failed"
                    /\ Len(remote') = Len(remote)
                    /\ polls' = polls
                    /\ reply' = reply
                    /\ disk' = disk]_vars

C22_Witness ==
    /\ pc = "failed"
    /\ out.code = "GRANT_FAILED"
    /\ checkpoints[Len(checkpoints)] =
           Checkpoint("permission_preparation", "failed")
    /\ ~runGranted

\* The remote platform has answered the running step's request with a
\* successful grant.
GrantAnswered ==
    IF reply = None THEN FALSE
    ELSE /\ pc \in {"account_onboarded", "preparation_granted"}
         /\ reply[1].id # NO_ID

\* C23: when the step whose grant request succeeded completes or fails, the
\* local store holds that grant as the pending record: its id, chain, expiry
\* and the call scope that was requested.
C23_SuccessfulGrantIsRecorded ==
    [][(GrantAnswered /\ pc' # pc /\ pc' # "crashed")
          => IF disk'.pending = None THEN FALSE
             ELSE disk'.pending[1] =
                     PendingRecord(reply[1].id, reply[1].chainId,
                                   reply[1].expiry, opts.calls[1])]_vars

\* C24: when the classification step of a run that sent a grant request
\* finds neither an active record nor a pending record, the step fails with
\* PERMISSION_NOT_FINALIZED and reports no verdict.
C24_GrantWithoutRecordIsFatal ==
    [][(/\ pc = "permission_classification"
        /\ pc' \notin {"permission_classification", "crashed"}
        /\ out'.code # "RELAY_REQUEST_FAILED"
        /\ runGranted
        /\ ActiveNow(address, chainId) = None
        /\ currentPendingPermission(config, chainId) = None)
        => (pc' = "failed" /\ out'.code = "PERMISSION_NOT_FINALIZED")]_vars

\* A run step stores a new pending record.
PendingRecorded ==
    /\ pc \in {"account_onboarded", "preparation_granted"}
    /\ disk'.pending # None
    /\ disk'.pending # disk.pending

\* C25 as stated: a run writes the pending record at most twice, at most
\* once to record a grant and at most once to clear it: a step that records
\* has no earlier record of this run behind it, and a step that clears has no
\* earlier clearing of this run behind it.
C25_PendingWrittenAtMostTwice ==
    [][/\ PendingRecorded => ~permissionUpdated
       /\ PendingDeleted => cleared = "none"]_vars

\* C25 amended: a run writes the pending record at most three times. It
\* records at most one grant. It clears at most twice, and twice only in this
\* order: the discovery step deleted the stored record, a grant was recorded
\* after that, and the classification step clears that grant on the verdict
\* active_onchain.
C25_PendingWrittenAtMostThrice ==
    [][/\ PendingRecorded => ~permissionUpdated
       /\ (PendingDeleted /\ cleared # "none")
              => /\ cleared = "permission_state"
                 /\ pc = "permission_classification"
                 /\ permissionUpdated
                 /\ activationState' = "active_onchain"
       /\ (PendingRecorded /\ cleared # "none")
              => (cleared = "permission_state" /\ pc = "preparation_granted")]_vars

\* C25 witness: discovery has deleted the stored record, the run has recorded
\* a new grant, and that grant is already active when classification starts.
C25_Witness ==
    /\ pc = "permission_classification"
    /\ cleared = "permission_state"
    /\ permissionUpdated
    /\ IF disk.pending = None \/ ActiveNow(address, chainId) = None THEN FALSE
       ELSE ActiveNow(address, chainId)[1].id = disk.pending[1].id

\* The observed entry is the reserved any-target/any-selector pair.
SentinelPair(e) ==
    /\ toLowerCase(e.to) = PORTO_ANY_TARGET
    /\ toLowerCase(e.signature) = PORTO_ANY_SELECTOR

\* A desired entry with each absent field replaced by its sentinel.
WithSentinels(e) ==
    Entry(IF Falsy(e.to) THEN PORTO_ANY_TARGET ELSE toLowerCase(e.to),
          IF Falsy(e.signature) THEN PORTO_ANY_SELECTOR
          ELSE toLowerCase(e.signature))

\* C26: a policy that names no calls matches an observed record whose call
\* scope is exactly the sentinel pair; and a desired entry with an absent
\* target or selector matches the observed entry that holds the sentinel in
\* that place and the same value in the other.
C26_AbsentEqualsSentinel ==
    /\ (/\ result.by = "callsMatch"
         /\ input.fn = "nocalls"
         /\ Len(input.observed) = 1
         /\ SentinelPair(input.observed[1]))
            => result.value
    /\ (/\ result.by \in {"callsMatch", "permissionMatchesRequestedAllowlist"}
         /\ input.fn = "calls"
         /\ Len(input.desired) = 1
         /\ Len(input.observed) = 1
         /\ (Falsy(input.desired[1].to) \/ Falsy(input.desired[1].signature))
         /\ WithSentinels(input.desired[1]) =
                Entry(toLowerCase(input.observed[1].to),
                      toLowerCase(input.observed[1].signature)))
            => result.value

C26_Witness ==
    /\ result.by = "callsMatch"
    /\ input.fn = "nocalls"
    /\ input.observed = << Entry(PORTO_ANY_TARGET, PORTO_ANY_SELECTOR) >>
    /\ result.value

\* One desired entry given as a textual function signature and one observed
\* entry for the same target holding that signature's 4-byte selector.
SignatureAgainstItsSelector ==
    /\ input.fn = "calls"
    /\ Len(input.desired) = 1
    /\ Len(input.observed) = 1
    /\ ~Falsy(input.desired[1].to)
    /\ toLowerCase(input.desired[1].to) = toLowerCase(input.observed[1].to)
    /\ ~Falsy(input.desired[1].signature)
    /\ ~isHexSelector(input.desired[1].signature)
    /\ toFunctionSelector(input.desired[1].signature) # NULL
    /\ toLowerCase(input.observed[1].signature) =
           toFunctionSelector(input.desired[1].signature)

\* C27: a desired entry given as a textual function signature matches the
\* observed entry for the same target that holds the signature's selector,
\* in both matchers.
C27_SignatureMatchesItsSelector ==
    (/\ result.by \in {"callsMatch", "permissionMatchesRequestedAllowlist"}
     /\ SignatureAgainstItsSelector)
        => result.value

\* Some observed spend entry has the policy's period and limit, and both its
\* token and the policy's token are a form of the native token (absent or
\* the zero address).
NativeSpendEntry(policy, spend) ==
    /\ CanonicalToken(policy.spendToken) = NATIVE_TOKEN_ADDRESS
    /\ \E i \in DOMAIN spend :
           /\ spend[i].period = policy.spendPeriod
           /\ spend[i].limit = policy.spendLimitWei
           /\ CanonicalToken(spend[i].token) = NATIVE_TOKEN_ADDRESS

\* C28: a desired and an observed spend entry that agree in period and limit
\* and differ at most in how they write the native token (absent, zero
\* address) match, in both spend matchers.
C28_NativeTokenFormsMatch ==
    /\ (result.by = "spendMatch" /\ NativeSpendEntry(input.policy, input.spend))
           => result.value
    /\ (result.by = "includesDailySpendLimit"
           /\ NativeSpendEntry(DefaultPolicy, input.spend))
           => result.value

\* A call list with every target and selector in lower case.
LoweredCalls(calls) ==
    [i \in DOMAIN calls |->
        Entry(LowerOpt(calls[i].to), LowerOpt(calls[i].signature))]

\* Some stored precall record is for the looked-up address written in any
\* letter case, for the looked-up chain, unexpired, and holds the policy's
\* call scope.
StoredForAddressAnyCase ==
    \E i \in DOMAIN input.stored :
        /\ toLowerCase(input.stored[i].address) = toLowerCase(input.address)
        /\ (input.chainId = NO_ID \/ input.stored[i].chainId = input.chainId)
        /\ input.stored[i].expiry > PollNow
        /\ LoweredCalls(input.stored[i].calls) = LoweredCalls(input.calls)

\* C29: letter case never changes an answer: the security validator answers
\* for an allowlist and account as it answers for their lower-case forms, and
\* the lookup of a stored precall record finds the record of an address
\* whatever the letter case the address is written in.
C29_ComparisonsIgnoreCase ==
    /\ result.by = "assertSecureAllowlist"
           => result.value = assertSecureAllowlist(LoweredCalls(input.allowlist),
                                                   toLowerCase(input.account))
    /\ (result.by = "findMatchingPrecall" /\ StoredForAddressAnyCase)
           => result.value # None


\* The capability the classification verdict rests on became active during
\* this run: discovery (step 2) kept no active record, or kept another one.
BecameActiveInRun ==
    /\ activationState' = "active_onchain"
    /\ IF activePermission = None THEN TRUE
       ELSE activePermission[1].id # activePermission'[1].id

\* C30: the capability-classification checkpoint is "updated" when the
\* capability is still pending or became active during this run, and
\* "already_ok" when it was already active and this run granted nothing.
C30_ClassificationStatusFollowsTransition ==
    [][(pc = "permission_classification" /\ pc' = "outcome") =>
        LET status == checkpoints'[Len(checkpoints')].status
        IN  /\ (activationState' # "active_onchain" => status = "updated")
            /\ (BecameActiveInRun => status = "updated")
            /\ (activationState' = "active_onchain" /\ ~BecameActiveInRun
                    /\ ~permissionUpdated => status = "already_ok")]_vars


\* The awaits that wait for the remote platform or for the owner's dialog.
RemoteAwaits == {"relay", "dialog", "prepare", "submit", "status"}

\* C31: every blocking operation ends within a configured deadline: no answer
\* is awaited longer than the longest timeout the program configures, and a
\* poll loop runs no longer than its deadline plus its last sleep and query.
C31_BlockingOperationsAreBounded ==
    /\ blocked.phase \in RemoteAwaits => blocked.waited <= SEND_STAGE_TIMEOUT_MS
    /\ blocked.op = "waitForActivePermission" =>
          blocked.total <= CONFIGURE_STATE_DISCOVERY_TIMEOUT_MS
                           + PERMISSION_DISCOVERY_INTERVAL_MS
                           + RELAY_REQUEST_TIMEOUT_MS
    /\ (blocked.op = "send" /\ blocked.phase \in {"status", "sleep"}) =>
          blocked.total <= SEND_STATUS_POLL_TIMEOUT_MS
                           + SEND_STATUS_REQUEST_TIMEOUT_MS


NoDuplicates(ids) == \A i, j \in DOMAIN ids : ids[i] = ids[j] => i = j

\* C32: whatever configure runs came before, the permissionIds list of the
\* config file names no identifier twice.
C32_PermissionIdsHaveNoDuplicates == NoDuplicates(disk.permissionIds)

\* A rerun completed with two identifiers on file, the granted one having
\* been added by the service and again by the step that recorded it.
C32_Witness ==
    /\ pc = "done"
    /\ Len(disk.permissionIds) = 2
    /\ runGranted


\* The step in progress leaves the run where it is or the process dies.
StepStays(name) == pc' = name \/ pc' = "crashed"

\* C33: a run that finds a usable agent key and a configured account creates
\* no key and onboards nothing: both checkpoints report already_ok and no
\* request goes to the dialog.
C33_RerunKeepsKeyAndAccount ==
    [][/\ (pc = "agent_key" /\ config.handle /\ ~StepStays("agent_key")
              /\ pc' # "failed") =>
             /\ checkpoints' = << Checkpoint("agent_key", "already_ok") >>
             /\ config'.handle
       /\ (pc = "account" /\ config.handle /\ address # NULL
              /\ ~StepStays("account") /\ pc' # "failed") =>
             /\ pc' = "permission_state"
             /\ checkpoints' = Append(checkpoints,
                                      Checkpoint("account", "already_ok"))
             /\ remote' = remote
             /\ config'.address = config.address]_vars


\* C34: an onboarding attempted without a terminal and without --headless
\* fails the account checkpoint with NON_INTERACTIVE_REQUIRES_FLAGS; nothing is
\* sent to the remote platform and the configured account, the listed
\* identifiers and the pending record stay as they were.
C34_NonInteractiveOnboardingFailsFast ==
    [][(pc = "account" /\ shouldOnboard /\ opts.nonInteractive
            /\ ~opts.headless /\ pc' # "crashed" /\ pc' # "account") =>
          /\ pc' = "failed"
          /\ out'.code = "NON_INTERACTIVE_REQUIRES_FLAGS"
          /\ checkpoints' = Append(checkpoints, Checkpoint("account", "failed"))
          /\ remote' = remote
          /\ reply' = reply
          /\ disk' = disk]_vars

\* Such a run has failed on a machine that had an account and a pending
\* record from an earlier run.
C34_Witness ==
    /\ pc = "failed"
    /\ out.code = "NON_INTERACTIVE_REQUIRES_FLAGS"
    /\ disk.address # NULL
    /\ disk.pending # None


\* The remote platform answered a grant request of the run with a new record.
GrantHappens == Len(remote') > Len(remote)

C36_PendingVerdictHasPendingRecord ==
    (pc = "done" /\ out.ok /\ out.state = "pending_activation") =>
        currentPendingPermission(disk, out.chainId) # None


\* The pending record the running process holds for its chain is no longer
\* valid: its expiry is not greater than now.
ExpiredPending ==
    LET pending == currentPendingPermission(config, chainId)
    IN  IF pending = None THEN FALSE ELSE pending[1].expiry <= now

\* C37: an expired pending record never stands in for a grant (discovery
\* that finds no active permission asks for a new grant) and never carries a
\* pending_activation report.
C37_ExpiredPendingIsNotValid ==
    [][/\ (pc = "permission_state" /\ pc' = "permission_preparation"
              /\ ExpiredPending /\ opts.calls # None /\ activePermission' = None)
             => requiresGrant'
       /\ (pc = "outcome" /\ pc' = "done" /\ ExpiredPending)
             => out'.state # "pending_activation"]_vars


\* send empties the stored precall list.
PrecallsCleared == precallPermissions # << >> /\ precallPermissions' = << >>

\* C38: send empties the stored precall list only when the settlement poll
\* saw the bundle settled, not when it ended at its deadline, with a failure
\* status or with the bundle still pending.
C38_PrecallsClearedOnlyWhenSettled ==
    [][PrecallsCleared => blocked'.status = "success"]_vars

====
